---- MODULE Spec2Model ----
(***************************************************************************)
(* BridgeAid backend: the resource normaliser (backend/resourceService.js) *)
(* and the match engine (backend/matching.js).                             *)
(*                                                                         *)
(* JavaScript values are tagged records: t is the type and one further     *)
(* field, named after the type, holds the payload (s, n/d, a, o), so       *)
(* that a field may hold a string, a number, an array or an object and     *)
(* the model can tell which, as the code's truthiness tests and method     *)
(* calls do.  An object is a function from its own field names to values;  *)
(* an absent field reads as undefined.  Strings are TLA+ strings, taken    *)
(* apart character by character where the code lower-cases, slices,        *)
(* collates or pattern-matches them.  A call that raises is the value      *)
(* TypeError.                                                              *)
(*                                                                         *)
(* The server (part_002) and the catalog cache of resourceService.js are   *)
(* a third machine.  An array built by a load lives in `heap` and is       *)
(* referred to by its index, so that "the same snapshot" and "a fresh      *)
(* load" are different things.  Node runs a handler without interruption   *)
(* until it waits for the network: `running` holds the request whose code  *)
(* is executing, and another request proceeds only when it is empty.       *)
(***************************************************************************)
EXTENDS Integers, Sequences, FiniteSets, TLC

VARIABLES
    resources,            \* matchResources' first argument: the catalog
    userInfo,             \* matchResources' second argument: the criteria
    matches,              \* local `matches` after step 2 (matching.js:92)
    prioritizedMatches,   \* local `prioritizedMatches` (matching.js:102)
    matchesWithDistance,  \* local `matchesWithDistance` after the sort
    result,               \* what matchResources returned, or TypeError
    matchPc,              \* "call" before matchResources ran, "done" after
    raw,                  \* normalizeResource's argument
    normalized,           \* normalizeResource(raw), or TypeError
    renormalized,         \* normalizeResource(normalized), or TypeError
    normPc,               \* "raw", "once", "twice"
    dataSource,           \* process.env.RESOURCE_DATA_SOURCE
    apiUrl,               \* process.env.RESOURCE_API_URL
    openaiApiKey,         \* process.env.OPENAI_API_KEY
    staticFile,           \* backend/resources.json as it is on disk
    resourceCache,        \* resourceService.js:14, its data and timestamp
    heap,                 \* the arrays built so far; a reference is an index
    loadedFrom,           \* for each array of heap, the source it was read from
    now,                  \* Date.now()
    serverResources,      \* the server's `resources` (part_002:17)
    resourcesInitialized, \* part_002:18
    running,              \* the request whose code is executing: {} or {r}
    req                   \* the requests: position, locals and response

vars == <<resources, userInfo, matches, prioritizedMatches, matchesWithDistance,
          result, matchPc, raw, normalized, renormalized, normPc,
          dataSource, apiUrl, openaiApiKey, staticFile, resourceCache, heap,
          loadedFrom, now, serverResources, resourcesInitialized, running, req>>

matchVars == <<resources, userInfo, matches, prioritizedMatches,
               matchesWithDistance, result, matchPc>>

normVars == <<raw, normalized, renormalized, normPc>>

envVars == <<dataSource, apiUrl, openaiApiKey, staticFile>>

serverVars == <<dataSource, apiUrl, openaiApiKey, staticFile, resourceCache, heap,
                loadedFrom, now, serverResources, resourcesInitialized, running, req>>

-----------------------------------------------------------------------------
(* Bounds of the model. *)

\* Math.random() is drawn from {0/RandSteps, ..., (RandSteps-1)/RandSteps}.
RandSteps == 10

\* The catalogs tried are the runs of at most MaxCatalog consecutive records
\* of the sample catalog, in file order and in reverse order.
MaxCatalog == 9

-----------------------------------------------------------------------------
(* Strings *)

Digits == "0123456789"

UpperCase == "ABCDEFGHIJKLMNOPQRSTUVWXYZ"

LowerCase == "abcdefghijklmnopqrstuvwxyz"

\* The other characters the model's strings use, with their code units.
Punctuation == <<" ", "#", ",", "-", ".", ":", "_">>

PunctuationCode == <<32, 35, 44, 45, 46, 58, 95>>

Ch(s, i) == SubSeq(s, i, i)

CharsOf(s) == {Ch(s, i) : i \in 1..Len(s)}

IndexIn(c, s) == CHOOSE i \in 1..Len(s) : Ch(s, i) = c

AsciiChars ==
    CharsOf(Digits) \cup CharsOf(UpperCase) \cup CharsOf(LowerCase)
        \cup {Punctuation[i] : i \in 1..Len(Punctuation)}

\* The UTF-16 code unit of a one-character string.
CodeUnit ==
    [c \in AsciiChars |->
        IF c \in CharsOf(Digits) THEN 47 + IndexIn(c, Digits)
        ELSE IF c \in CharsOf(UpperCase) THEN 64 + IndexIn(c, UpperCase)
        ELSE IF c \in CharsOf(LowerCase) THEN 96 + IndexIn(c, LowerCase)
        ELSE PunctuationCode[CHOOSE i \in 1..Len(Punctuation) : Punctuation[i] = c]]

IsUpper(c) == CodeUnit[c] \in 65..90

IsDigit(c) == CodeUnit[c] \in 48..57

\* \w of a regular expression: [A-Za-z0-9_]
IsWordCh(c) ==
    \/ CodeUnit[c] \in 48..57
    \/ CodeUnit[c] \in 65..90
    \/ CodeUnit[c] \in 97..122
    \/ c = "_"

toLowerCaseCh(c) == IF IsUpper(c) THEN Ch(LowerCase, IndexIn(c, UpperCase)) ELSE c

\* String.prototype.toLowerCase
RECURSIVE toLowerCase(_)
toLowerCase(s) ==
    IF s = "" THEN ""
    ELSE toLowerCaseCh(Ch(s, 1)) \o toLowerCase(SubSeq(s, 2, Len(s)))

\* String.prototype.substring(0, n)
substring0(s, n) == SubSeq(s, 1, IF Len(s) < n THEN Len(s) ELSE n)

\* Lexicographic comparison of two sequences of integers: -1, 0 or 1.
RECURSIVE SeqCompare(_, _)
SeqCompare(x, y) ==
    IF Len(x) = 0 THEN (IF Len(y) = 0 THEN 0 ELSE -1)
    ELSE IF Len(y) = 0 THEN 1
    ELSE IF x[1] < y[1] THEN -1
    ELSE IF x[1] > y[1] THEN 1
    ELSE SeqCompare(Tail(x), Tail(y))

CodeUnits(s) == [i \in 1..Len(s) |-> CodeUnit[Ch(s, i)]]

\* Collation keys of the host's default collator for letters, digits and
\* spaces: the primary key ignores case, the tertiary key puts a lower-case
\* letter before its upper-case form.
PrimaryKey(s) == [i \in 1..Len(s) |-> CodeUnit[toLowerCaseCh(Ch(s, i))]]

TertiaryKey(s) == [i \in 1..Len(s) |-> IF IsUpper(Ch(s, i)) THEN 1 ELSE 0]

\* String.prototype.localeCompare: primary keys first, case only to break
\* a primary tie.
localeCompare(a, b) ==
    LET p == SeqCompare(PrimaryKey(a), PrimaryKey(b))
    IN  IF p # 0 THEN p ELSE SeqCompare(TertiaryKey(a), TertiaryKey(b))

-----------------------------------------------------------------------------
(* JavaScript values *)

Str(s) == [t |-> "string", s |-> s]

\* The number n/d; an integer has d = 1.
Num(n) == [t |-> "number", n |-> n, d |-> 1]

\* A non-integer number n/RandSteps, 0 < n < RandSteps, as Math.random gives.
Frac(n) == [t |-> "number", n |-> n, d |-> RandSteps]

Arr(a) == [t |-> "array", a |-> a]

Obj(o) == [t |-> "object", o |-> o]

Undefined == [t |-> "undefined"]

Null == [t |-> "null"]

\* A reference to the array heap[i]
Ref(i) == [t |-> "array", ref |-> i]

TypeError == [t |-> "throw", error |-> "TypeError"]

StrArr(a) == Arr([i \in 1..Len(a) |-> Str(a[i])])

\* ToBoolean
Truthy(x) ==
    CASE x.t = "undefined" -> FALSE
      [] x.t = "null"      -> FALSE
      [] x.t = "string"    -> x.s # ""
      [] x.t = "number"    -> x.n # 0
      [] OTHER             -> TRUE

\* a || b
Or(a, b) == IF Truthy(a) THEN a ELSE b

\* o.f for a record o of the model (an object's own fields)
Get(o, f) == IF f \in DOMAIN o THEN o[f] ELSE Undefined

\* x?.f for a value x
OptGet(x, f) == IF x.t = "object" THEN Get(x.o, f) ELSE Undefined

\* Math.random(): k stands for k/RandSteps
MathRandom(k) == IF k = 0 THEN Num(0) ELSE Frac(k)

Range(s) == {s[i] : i \in 1..Len(s)}

\* How a call ended: it returned x, or it raised.
Return(x) == [threw |-> FALSE, value |-> x]

Throw == [threw |-> TRUE, value |-> TypeError]

-----------------------------------------------------------------------------
(* backend/resourceService.js: normalisation *)

\* The synonym table of mapCategory.
categoryMap ==
    [x \in {"food", "food assistance", "food bank", "meal", "nutrition",
            "housing", "shelter", "rental assistance",
            "mental health", "mental healthcare", "counseling", "therapy",
            "legal", "legal aid", "legal services",
            "jobs", "employment", "job training", "workforce", "career"} |->
        CASE x \in {"food", "food assistance", "food bank", "meal", "nutrition"}
                -> "food"
          [] x \in {"housing", "shelter", "rental assistance"}
                -> "housing"
          [] x \in {"mental health", "mental healthcare", "counseling", "therapy"}
                -> "mental_health"
          [] x \in {"legal", "legal aid", "legal services"}
                -> "legal"
          [] OTHER
                -> "jobs"]

\* categoryMap is an object literal: a lookup of one of these keys finds the
\* member it inherits from Object.prototype, which is truthy.
InheritedKeys == {"constructor", "__proto__"}

\* mapCategory(category)
mapCategory(category) ==
    IF ~Truthy(category) THEN Str("other")
    ELSE IF category.t # "string" THEN TypeError   \* category.toLowerCase is not a function
    ELSE LET categoryLower == toLowerCase(category.s)
         IN  IF categoryLower \in DOMAIN categoryMap
                 THEN Str(categoryMap[categoryLower])
             ELSE IF categoryLower \in InheritedKeys
                 THEN Obj([inherited |-> Str(categoryLower)])
             ELSE Str(categoryLower)

AllDigits(s) == \A i \in 1..Len(s) : IsDigit(Ch(s, i))

\* \b at the gap before position i of s (i in 1..Len(s)+1)
WordBoundary(s, i) ==
    LET before == i > 1 /\ IsWordCh(Ch(s, i - 1))
        after  == i <= Len(s) /\ IsWordCh(Ch(s, i))
    IN  before # after

\* The start positions of the matches of /\b\d{5}\b/ in s
ZipMatches(s) ==
    {i \in 1..(Len(s) - 4) :
        /\ AllDigits(SubSeq(s, i, i + 4))
        /\ WordBoundary(s, i)
        /\ WordBoundary(s, i + 5)}

\* The start positions of the matches of /\b\d{5}-\d{4}\b/ in s
ZipPlus4Matches(s) ==
    {i \in 1..(Len(s) - 9) :
        /\ AllDigits(SubSeq(s, i, i + 4))
        /\ Ch(s, i + 5) = "-"
        /\ AllDigits(SubSeq(s, i + 6, i + 9))
        /\ WordBoundary(s, i)
        /\ WordBoundary(s, i + 10)}

Leftmost(S) == CHOOSE i \in S : \A j \in S : i <= j

\* extractZip(text)
extractZip(text) ==
    IF ~Truthy(text) THEN Str("")
    ELSE IF text.t # "string" THEN TypeError       \* text.match is not a function
    ELSE IF ZipMatches(text.s) # {}
        THEN LET i == Leftmost(ZipMatches(text.s)) IN Str(SubSeq(text.s, i, i + 4))
    ELSE IF ZipPlus4Matches(text.s) # {}
        THEN LET i == Leftmost(ZipPlus4Matches(text.s))
             IN  Str(substring0(SubSeq(text.s, i, i + 9), 5))
    ELSE Str("")

\* The test of normalizeResource's first line: resource.id && resource.name
\* && resource.category
AlreadyNormalized(resource) ==
    /\ Truthy(Get(resource, "id"))
    /\ Truthy(Get(resource, "name"))
    /\ Truthy(Get(resource, "category"))

\* normalizeResource(resource), rnd being what Math.random() returns if the
\* id falls through to it.  The fields are evaluated in the literal's order;
\* the first call that raises ends the function.
normalizeResource(resource, rnd) ==
    IF AlreadyNormalized(resource) THEN Return(resource)
    ELSE
    LET r(f) == Get(resource, f)
        location == r("location")
        category == mapCategory(Or(r("category"), Or(r("service_category"), r("type"))))
        zip == extractZip(Or(r("zip"), Or(r("postal_code"),
                   Or(OptGet(location, "postal_code"), Or(r("address"), Str(""))))))
    IN  IF category = TypeError \/ zip = TypeError THEN Throw
        ELSE Return(
        [id |-> Or(r("id"), Or(r("resource_id"), Or(r("organization_id"), MathRandom(rnd)))),
         name |-> Or(r("name"), Or(r("organization_name"),
                     Or(r("title"), Str("Unknown Resource")))),
         category |-> category,
         address |-> Or(r("address"), Or(OptGet(location, "address"),
                        Or(r("physical_address"), Str("")))),
         zip |-> zip,
         hours |-> Or(r("hours"), Or(r("hours_of_operation"),
                      Or(r("schedule"), Str("Contact for hours")))),
         phone |-> Or(r("phone"), Or(r("phone_number"), Or(r("contact_phone"), Str("")))),
         website |-> Or(r("website"), Or(r("url"), Or(r("web_url"), Str("")))),
         eligibilityNotes |-> Or(r("eligibilityNotes"), Or(r("eligibility_notes"),
                                 Or(r("eligibility"), Or(r("description"), Str(""))))),
         eligibilityTags |-> Or(r("eligibilityTags"), Or(r("eligibility_tags"),
                                Or(r("tags"), Arr(<<>>)))),
         languagesSupported |-> Or(r("languagesSupported"), Or(r("languages_supported"),
                                   Or(r("languages"), StrArr(<<"English">>))))])

-----------------------------------------------------------------------------
(* backend/matching.js *)

\* matchResources returns at most this many matches (slice(0, 5)).
TopN == 5

\* calculateDistance with the drawn value rounded up instead of down
calculateDistanceCeil(zip1, zip2, rnd) ==
    IF zip1 = zip2 THEN Num(0)
    ELSE IF zip1.t # "string" \/ zip2.t # "string" THEN TypeError
    ELSE IF substring0(zip1.s, 3) = substring0(zip2.s, 3)
        THEN Num((((rnd * 5) + RandSteps - 1) \div RandSteps) + 1)
    ELSE Num((((rnd * 10) + RandSteps - 1) \div RandSteps) + 5)

\* calculateDistance(zip1, zip2), rnd being what Math.random() returns:
\* rnd stands for rnd/RandSteps.  Math.floor(x * 5) is (rnd * 5) \div RandSteps.
calculateDistance(zip1, zip2, rnd) ==
    IF zip1 = zip2 THEN Num(0)
    ELSE IF zip1.t # "string" \/ zip2.t # "string"
        THEN TypeError                              \* zip.substring is not a function
    ELSE IF substring0(zip1.s, 3) = substring0(zip2.s, 3)
        THEN Num(((rnd * 5) \div RandSteps) + 1)
    ELSE Num(((rnd * 10) \div RandSteps) + 5)

\* The `userTags` array matchesEligibility builds.
userTagsOf(info) ==
    (IF Get(info, "incomeBracket") \in {Str("low"), Str("very_low")}
        THEN <<Str("low_income")>> ELSE <<>>)
    \o (IF Get(info, "ageRange") = Str("65+") THEN <<Str("senior")>> ELSE <<>>)
    \o (IF Get(info, "householdSize").t = "number" /\ Get(info, "householdSize").n > 1
        THEN <<Str("parent")>> ELSE <<>>)

\* matchesEligibility demanding a shared tag of every tagged resource, also
\* when the user has no tag
matchesEligibilityStrict(resource, info) ==
    LET tags == Get(resource, "eligibilityTags")
    IN  IF ~Truthy(tags) \/ Len(tags.a) = 0 THEN TRUE
        ELSE \E i \in 1..Len(tags.a) : tags.a[i] \in Range(userTagsOf(info))

\* matchesEligibility(resource, userInfo)
matchesEligibility(resource, info) ==
    LET tags == Get(resource, "eligibilityTags")
    IN  IF ~Truthy(tags) \/ Len(tags.a) = 0 THEN TRUE
        ELSE LET userTags == userTagsOf(info)
             IN  IF Len(tags.a) > 0 /\ Len(userTags) > 0
                     THEN \E i \in 1..Len(tags.a) : tags.a[i] \in Range(userTags)
                     ELSE TRUE

\* supportsLanguage(resource, preferredLanguage)
supportsLanguage(resource, preferredLanguage) ==
    LET langs == Get(resource, "languagesSupported")
    IN  IF ~Truthy(langs) \/ Len(langs.a) = 0 THEN TRUE
        ELSE \E i \in 1..Len(langs.a) :
                toLowerCase(langs.a[i].s) = toLowerCase(preferredLanguage.s)

\* const { preferredLanguage = 'English' } = userInfo
preferredLanguageOf(info) ==
    IF Get(info, "preferredLanguage") = Undefined
        THEN Str("English") ELSE Get(info, "preferredLanguage")

\* Step 1 comparing the categories without regard to case
categoryMatchesIgnoringCase(rs, info) ==
    SelectSeq(rs, LAMBDA r :
        toLowerCase(Get(r, "category").s) = toLowerCase(Get(info, "primaryNeed").s))

\* Step 1: resources.filter(resource => resource.category === primaryNeed)
categoryMatches(rs, info) ==
    SelectSeq(rs, LAMBDA r : Get(r, "category") = Get(info, "primaryNeed"))

\* Step 2: matches.filter(resource => matchesEligibility(resource, userInfo))
eligibleMatches(rs, info) ==
    SelectSeq(categoryMatches(rs, info), LAMBDA r : matchesEligibility(r, info))

\* Step 3: languageMatches
languageMatches(ms, info) ==
    SelectSeq(ms, LAMBDA r : supportsLanguage(r, preferredLanguageOf(info)))

\* The language filter made a hard filter
prioritizeStrict(ms, info) == languageMatches(ms, info)

\* The language matches kept only when they fill the result
prioritizePadded(ms, info) ==
    IF Len(languageMatches(ms, info)) >= TopN THEN languageMatches(ms, info) ELSE ms

\* languageMatches.length > 0 ? languageMatches : matches
prioritize(ms, info) ==
    IF Len(languageMatches(ms, info)) > 0 THEN languageMatches(ms, info) ELSE ms

\* { ...resource, distance }
withDistance(resource, d) ==
    [f \in DOMAIN resource \cup {"distance"} |->
        IF f = "distance" THEN d ELSE resource[f]]

\* Whether the map of step 4 raises: some calculateDistance call does.
distanceThrows(ps, info) ==
    \E i \in 1..Len(ps) :
        calculateDistance(Get(info, "zip"), Get(ps[i], "zip"), 0) = TypeError

\* Step 4: the lists prioritizedMatches.map(...) can produce, one for each
\* way the calls of Math.random() can come out.
RECURSIVE annotated(_, _)
annotated(ps, info) ==
    IF Len(ps) = 0 THEN {<<>>}
    ELSE {<<withDistance(ps[1], d)>> \o rest :
            d \in {calculateDistance(Get(info, "zip"), Get(ps[1], "zip"), k) :
                       k \in 0..(RandSteps - 1)},
            rest \in annotated(Tail(ps), info)}

\* The comparator without its tie-break on the name
compareDistanceOnly(a, b) == a.distance.n - b.distance.n

\* The comparator of the sort: distance first, then name.
compareMatches(a, b) ==
    IF a.distance # b.distance THEN a.distance.n - b.distance.n
    ELSE localeCompare(a.name.s, b.name.s)

\* e put into the sorted list s after every element that does not compare
\* greater than it.
RECURSIVE insertSorted(_, _)
insertSorted(s, e) ==
    IF Len(s) = 0 THEN <<e>>
    ELSE IF compareMatches(s[Len(s)], e) <= 0 THEN Append(s, e)
    ELSE Append(insertSorted(SubSeq(s, 1, Len(s) - 1), e), s[Len(s)])

\* Array.prototype.sort with compareMatches: a stable sort.
RECURSIVE sortMatches(_)
sortMatches(s) ==
    IF Len(s) = 0 THEN <<>>
    ELSE insertSorted(sortMatches(SubSeq(s, 1, Len(s) - 1)), s[Len(s)])

\* slice(0, 5)
topMatches(s) == SubSeq(s, 1, IF Len(s) < TopN THEN Len(s) ELSE TopN)

\* The distance written into the resources kept, not into copies of them
resourcesAnnotatedInPlace(rs, info) ==
    LET kept == Range(prioritize(eligibleMatches(rs, info), info))
    IN  [i \in 1..Len(rs) |->
            IF rs[i] \in kept /\ "zip" \in DOMAIN rs[i]
            THEN withDistance(rs[i], calculateDistance(Get(info, "zip"), rs[i].zip, 0))
            ELSE rs[i]]

\* The array `resources` and its elements once matchResources has run:
\* filter, map and slice build new arrays, { ...resource, distance } builds
\* new objects, and sort orders the array map built, so nothing is written
\* to the argument.
resourcesAfterMatch(rs, info) == rs

\* resources.json on disk: not there, not JSON, or holding an array of
\* records
Missing == [t |-> "missing"]

Malformed == [t |-> "malformed"]

Parsed(records) == [t |-> "parsed", records |-> records]

\* loadFromJSON(): readFileSync or JSON.parse raises on a file that is
\* missing or malformed; otherwise every record is normalised.  An error
\* raised on the way is caught and the catalog is empty.
loadFromJSON(file) ==
    IF file.t # "parsed" THEN <<>>
    ELSE IF \E i \in 1..Len(file.records) :
                normalizeResource(file.records[i], 0).threw THEN <<>>
    ELSE [i \in 1..Len(file.records) |-> normalizeResource(file.records[i], 0).value]

-----------------------------------------------------------------------------
(* The inputs of the match engine *)

\* A record in the shape of backend/resources.json (README.md, "Adding New
\* Resources"): id, name and category, and the further fields of `more`.
Resource(id, name, category, more) ==
    [id |-> Num(id), name |-> Str(name), category |-> Str(category)] @@ more

Zip(z) == [zip |-> Str(z)]

Tags(t) == [eligibilityTags |-> StrArr(t)]

Langs(l) == [languagesSupported |-> StrArr(l)]

\* A static catalog file.  Its first record has no zip, its ninth has a
\* category that is not in canonical form and its tenth an empty zip; all
\* have id, name and category.
SampleFile ==
    << Resource(1, "Nozip", "food", Tags(<<>>) @@ Langs(<<"English">>)),
       Resource(2, "apple", "food",
                Zip("94601") @@ Tags(<<"low_income", "parent">>) @@ Langs(<<>>)),
       Resource(3, "corn", "food",
                Zip("94601") @@ Tags(<<>>) @@ Langs(<<"English", "Spanish">>)),
       Resource(4, "Apple", "food",
                Zip("94601") @@ Tags(<<"senior">>) @@ Langs(<<"English">>)),
       Resource(5, "Bread", "food", Zip("94612") @@ Langs(<<"spanish">>)),
       Resource(6, "Dairy", "food",
                Zip("10001") @@ Tags(<<>>) @@ Langs(<<"English">>)),
       Resource(7, "Bread", "food",
                Zip("94601") @@ Tags(<<>>) @@ Langs(<<"ENGLISH">>)),
       Resource(8, "eggs", "food",
                Zip("94601") @@ Tags(<<"veteran">>) @@ Langs(<<"English">>)),
       Resource(9, "Fresh", "Food", Zip("94601") @@ Tags(<<>>)),
       Resource(10, "Haven", "housing",
                Zip("") @@ Tags(<<"senior", "parent">>) @@ Langs(<<"Vietnamese">>)) >>

Reverse(s) == [i \in 1..Len(s) |-> s[Len(s) + 1 - i]]

\* The files tried: the runs of at most MaxCatalog consecutive records of
\* SampleFile, in file order and reversed.
Files ==
    LET runs == {SubSeq(SampleFile, i, j) :
                    i \in 1..Len(SampleFile), j \in 0..Len(SampleFile)}
        short == {f \in runs : Len(f) <= MaxCatalog}
    IN  short \cup {Reverse(f) : f \in short}

Catalogs == {loadFromJSON(Parsed(f)) : f \in Files}

\* The criteria tried: zip and primaryNeed are non-empty strings, as the
\* /match handler requires; preferredLanguage may be absent.
Criteria ==
    {[zip |-> Str("94601"), primaryNeed |-> Str(need), incomeBracket |-> Str(income),
      ageRange |-> Str(age), householdSize |-> Num(size)] @@ lang :
        need \in {"food", "housing"},
        income \in {"very_low", "low", "moderate"},
        age \in {"65+", "30-40"},
        size \in {1, 2},
        lang \in {<<>>, [preferredLanguage |-> Str("English")],
                  [preferredLanguage |-> Str("spanish")],
                  [preferredLanguage |-> Str("French")]}}

-----------------------------------------------------------------------------
(* The match engine as a state machine: one call of matchResources *)

NormIdle ==
    /\ raw = <<>>
    /\ normalized = Return(Undefined)
    /\ renormalized = Return(Undefined)
    /\ normPc = "idle"

\* The server is not running.
ServerIdle ==
    /\ dataSource = Undefined
    /\ apiUrl = Undefined
    /\ openaiApiKey = Undefined
    /\ staticFile = Missing
    /\ resourceCache = [data |-> Null, timestamp |-> Null]
    /\ heap = <<>>
    /\ loadedFrom = <<>>
    /\ now = 0
    /\ serverResources = Null
    /\ resourcesInitialized = FALSE
    /\ running = {}
    /\ req = <<>>

InitMatch ==
    /\ resources \in Catalogs
    /\ userInfo \in Criteria
    /\ matches = <<>>
    /\ prioritizedMatches = <<>>
    /\ matchesWithDistance = <<>>
    /\ result = Return(<<>>)
    /\ matchPc = "call"
    /\ NormIdle
    /\ ServerIdle

\* matchResources(resources, userInfo) runs to its return, the map of step 4
\* completing every calculateDistance call
MatchReturns ==
    /\ matchPc = "call"
    /\ ~distanceThrows(prioritize(eligibleMatches(resources, userInfo), userInfo), userInfo)
    /\ matches' = eligibleMatches(resources, userInfo)
    /\ prioritizedMatches' = prioritize(matches', userInfo)
    /\ \E ds \in annotated(prioritizedMatches', userInfo) :
          matchesWithDistance' = sortMatches(ds)
    /\ result' = Return(topMatches(matchesWithDistance'))
    /\ matchPc' = "done"
    /\ resources' = resourcesAfterMatch(resources, userInfo)
    /\ UNCHANGED userInfo
    /\ UNCHANGED normVars
    /\ UNCHANGED serverVars

\* matchResources(resources, userInfo) raises in step 4: a calculateDistance
\* call fails on a resource's zip
MatchThrows ==
    /\ matchPc = "call"
    /\ distanceThrows(prioritize(eligibleMatches(resources, userInfo), userInfo), userInfo)
    /\ matches' = eligibleMatches(resources, userInfo)
    /\ prioritizedMatches' = prioritize(matches', userInfo)
    /\ matchesWithDistance' = <<>>
    /\ result' = Throw
    /\ matchPc' = "done"
    /\ UNCHANGED <<resources, userInfo>>
    /\ UNCHANGED normVars
    /\ UNCHANGED serverVars

NextMatch == MatchReturns \/ MatchThrows

SpecMatch == InitMatch /\ [][NextMatch]_vars

-----------------------------------------------------------------------------
(* Vocabulary of the properties of the match engine *)

Done == matchPc = "done"

Returned == Done /\ ~result.threw

Min(a, b) == IF a < b THEN a ELSE b

Count(x, s) == Cardinality({i \in 1..Len(s) : s[i] = x})

SameElements(s, u) ==
    /\ Len(s) = Len(u)
    /\ \A i \in 1..Len(s) : Count(s[i], s) = Count(s[i], u)

withoutDistance(e) == [f \in DOMAIN e \ {"distance"} |-> e[f]]

Stripped(s) == [i \in 1..Len(s) |-> withoutDistance(s[i])]

\* The tags of a resource and the tags derived from the criteria, as sets
TagSet(r) ==
    IF "eligibilityTags" \in DOMAIN r THEN Range(r.eligibilityTags.a) ELSE {}

DerivedTags(info) ==
    (IF info.incomeBracket.s \in {"low", "very_low"} THEN {Str("low_income")} ELSE {})
    \cup (IF info.ageRange.s = "65+" THEN {Str("senior")} ELSE {})
    \cup (IF info.householdSize.n > 1 THEN {Str("parent")} ELSE {})

\* The language the criteria ask for, "English" when they name none
AskedLanguage ==
    IF "preferredLanguage" \in DOMAIN userInfo
        THEN userInfo.preferredLanguage.s ELSE "English"

\* r supports the asked language: it lists none, or lists it in some casing
Supports(r) ==
    \/ "languagesSupported" \notin DOMAIN r
    \/ r.languagesSupported.a = <<>>
    \/ \E i \in 1..Len(r.languagesSupported.a) :
          toLowerCase(r.languagesSupported.a[i].s) = toLowerCase(AskedLanguage)

\* a may stand before b: nearer, or as near and its name not after b's in
\* the collation of localeCompare
InRankOrder(a, b) ==
    \/ a.distance.n < b.distance.n
    \/ a.distance.n = b.distance.n /\ localeCompare(a.name.s, b.name.s) <= 0

\* the same with names compared code unit by code unit (case-sensitive
\* lexicographic order)
InCodeUnitOrder(a, b) ==
    \/ a.distance.n < b.distance.n
    \/ /\ a.distance.n = b.distance.n
       /\ SeqCompare(CodeUnits(a.name.s), CodeUnits(b.name.s)) <= 0

\* the result is the first five (or fewer) entries of the ranked working set
IsTopOfRanking ==
    /\ SameElements(Stripped(matchesWithDistance), prioritizedMatches)
    /\ Len(result.value) = Min(5, Len(matchesWithDistance))
    /\ result.value = SubSeq(matchesWithDistance, 1, Len(result.value))

-----------------------------------------------------------------------------
(* C1..C7: the match engine *)

\* C1: matchResources returns at most 5 elements, and the category of every
\* returned element is exactly the criteria's primaryNeed (a category that
\* differs from it only in case is not returned).
C1_AtMostFiveOfTheNeed ==
    Returned =>
        /\ Len(result.value) <= 5
        /\ \A i \in 1..Len(result.value) :
              result.value[i].category.s = userInfo.primaryNeed.s

\* C1's case: more than five candidates were ranked, five were returned, and
\* the catalog held a resource whose category matches only up to case.
C1_Witness ==
    /\ Returned
    /\ Len(matchesWithDistance) > 5
    /\ Len(result.value) = 5
    /\ \E i \in 1..Len(resources) :
          /\ resources[i].category.s # userInfo.primaryNeed.s
          /\ toLowerCase(resources[i].category.s) = userInfo.primaryNeed.s

\* C2 as claimed: the returned list is non-decreasing by distance, adjacent
\* elements at the same distance are in case-sensitive lexicographic order
\* of name, and the list is the first five entries of that ranking.
C2_CodeUnitOrder ==
    Returned =>
        /\ \A i \in 1..(Len(result.value) - 1) :
              InCodeUnitOrder(result.value[i], result.value[i + 1])
        /\ IsTopOfRanking
        /\ \A i \in 1..Len(result.value) :
              \A j \in (Len(result.value) + 1)..Len(matchesWithDistance) :
                  InCodeUnitOrder(result.value[i], matchesWithDistance[j])

\* C2 amended: the returned list is non-decreasing by distance, adjacent
\* elements at the same distance are in the order of localeCompare on their
\* names (letters compared without regard to case first, a lower-case
\* letter before its upper-case form on a tie), and the list is the first
\* five entries of that ranking of the working set: no dropped candidate
\* ranks before a returned one.
C2_LocaleOrder ==
    Returned =>
        /\ \A i \in 1..(Len(result.value) - 1) :
              InRankOrder(result.value[i], result.value[i + 1])
        /\ IsTopOfRanking
        /\ \A i \in 1..Len(result.value) :
              \A j \in (Len(result.value) + 1)..Len(matchesWithDistance) :
                  InRankOrder(result.value[i], matchesWithDistance[j])

\* C2's case: two adjacent returned elements at the same distance whose
\* names the two orders rank differently, with a candidate dropped.
C2_Witness ==
    /\ Returned
    /\ Len(matchesWithDistance) > Len(result.value)
    /\ \E i \in 1..(Len(result.value) - 1) :
          /\ result.value[i].distance = result.value[i + 1].distance
          /\ localeCompare(result.value[i].name.s, result.value[i + 1].name.s) < 0
          /\ SeqCompare(CodeUnits(result.value[i].name.s),
                        CodeUnits(result.value[i + 1].name.s)) > 0

\* The distance tier of a returned element e
SameZip(e) == e.zip.s = userInfo.zip.s

SamePrefix(e) == SubSeq(e.zip.s, 1, Min(3, Len(e.zip.s)))
                    = SubSeq(userInfo.zip.s, 1, Min(3, Len(userInfo.zip.s)))

ZipsAreStrings(s) ==
    \A i \in 1..Len(s) : "zip" \in DOMAIN s[i] /\ s[i].zip.t = "string"

C6_EligibilityFilter ==
    Done =>
        LET inCategory == SelectSeq(resources,
                LAMBDA r : r.category.s = userInfo.primaryNeed.s)
            excluded(r) == /\ TagSet(r) # {}
                           /\ DerivedTags(userInfo) # {}
                           /\ TagSet(r) \cap DerivedTags(userInfo) = {}
        IN  matches = SelectSeq(inCategory, LAMBDA r : ~excluded(r))

\* C6's case: the user's derived tags are {low_income}; a resource tagged
\* {senior} was dropped, an untagged one and one tagged low_income kept.
C6_Witness ==
    /\ Done
    /\ DerivedTags(userInfo) = {Str("low_income")}
    /\ \E i \in 1..Len(resources) :
          /\ resources[i].category = userInfo.primaryNeed
          /\ TagSet(resources[i]) = {Str("senior")}
          /\ Count(resources[i], matches) = 0
    /\ \E i \in 1..Len(matches) : TagSet(matches[i]) = {}
    /\ \E i \in 1..Len(matches) : Str("low_income") \in TagSet(matches[i])

\* C6's other case: the user has no derived tag and every tagged resource
\* of the category passed.
C6_WitnessNoUserTags ==
    /\ Done
    /\ DerivedTags(userInfo) = {}
    /\ \E i \in 1..Len(matches) : TagSet(matches[i]) # {}

\* C7 as claimed: for every catalog the normaliser produces and every
\* criteria with string zip and primaryNeed, matchResources returns a list
\* and does not raise; with nothing to match the list is empty.
C7_MatchIsTotal ==
    Done =>
        /\ ~result.threw
        /\ (matches = <<>> => result.value = <<>>)

-----------------------------------------------------------------------------
(* The normaliser as a state machine: normalizeResource applied to a raw
   record, and applied again to what it returned *)

\* The field f absent, or holding one of the values vs
Optional(f, vs) == {<<>>} \cup {f :> x : x \in vs}

\* The raw records tried: canonical and alternate field names, fields
\* missing, and fields holding empty, non-canonical or non-string values.
RawRecords ==
    {id @@ rid @@ name @@ oname @@ cat @@ scat @@ zip @@ pc @@ addr @@ loc :
        id \in Optional("id", {Num(0), Num(7)}),
        rid \in Optional("resource_id", {Num(3)}),
        name \in Optional("name", {Str(""), Str("Pantry")}),
        oname \in Optional("organization_name", {Str("Org")}),
        cat \in Optional("category", {Str(""), Str("Food Bank"), Str("food"),
                                      Str("Daycare"), Str("constructor"), Num(5)}),
        scat \in Optional("service_category", {Str("SHELTER")}),
        zip \in Optional("zip", {Str("94601"), Str("Suite 100"), Num(94601)}),
        pc \in Optional("postal_code", {Str("94612-1234")}),
        addr \in Optional("address", {Str("12 Main St, Oakland, CA 94601"),
                                      Str("PO Box 123456")}),
        loc \in Optional("location",
                    {Obj([address |-> Str("5 Elm St"), postal_code |-> Str("10001")])})}

MatchIdle ==
    /\ resources = <<>>
    /\ userInfo = <<>>
    /\ matches = <<>>
    /\ prioritizedMatches = <<>>
    /\ matchesWithDistance = <<>>
    /\ result = Return(<<>>)
    /\ matchPc = "idle"

InitNormalize ==
    /\ raw \in RawRecords
    /\ normalized = Return(Undefined)
    /\ renormalized = Return(Undefined)
    /\ normPc = "raw"
    /\ MatchIdle
    /\ ServerIdle

\* normalizeResource(raw)
Normalize ==
    /\ normPc = "raw"
    /\ \E rnd \in 0..(RandSteps - 1) : normalized' = normalizeResource(raw, rnd)
    /\ normPc' = "once"
    /\ UNCHANGED <<raw, renormalized>>
    /\ UNCHANGED matchVars
    /\ UNCHANGED serverVars

\* normalizeResource(normalizeResource(raw)): raises if the inner call did
NormalizeAgain ==
    /\ normPc = "once"
    /\ IF normalized.threw THEN renormalized' = Throw
       ELSE \E rnd \in 0..(RandSteps - 1) :
                renormalized' = normalizeResource(normalized.value, rnd)
    /\ normPc' = "twice"
    /\ UNCHANGED <<raw, normalized>>
    /\ UNCHANGED matchVars
    /\ UNCHANGED serverVars

NextNormalize == Normalize \/ NormalizeAgain

SpecNormalize == InitNormalize /\ [][NextNormalize]_vars

-----------------------------------------------------------------------------
(* C8..C10: the normaliser *)

\* C8 as claimed: a record that has id, name and category fields, whatever
\* they hold, is returned unchanged, and normalising the result of a
\* normalisation returns that result.
C8_Idempotent ==
    /\ (/\ normPc \in {"once", "twice"}
        /\ {"id", "name", "category"} \subseteq DOMAIN raw
        /\ ~normalized.threw)
       => normalized.value = raw
    /\ (normPc = "twice" /\ ~normalized.threw /\ ~renormalized.threw)
       => renormalized.value = normalized.value

\* C9 as claimed: a raw record whose category is, without regard to case, a
\* key of the synonym table comes back with the category the table maps it
\* to, whatever its other fields, id and name among them.
C9_SynonymMapped ==
    (/\ normPc \in {"once", "twice"}
     /\ "category" \in DOMAIN raw
     /\ raw.category.t = "string"
     /\ toLowerCase(raw.category.s) \in DOMAIN categoryMap
     /\ ~normalized.threw)
    => normalized.value.category = Str(categoryMap[toLowerCase(raw.category.s)])

\* C10 as claimed: normalizeResource raises on no raw record and returns a
\* record whose category is not empty.
C10_NeverFails ==
    normPc \in {"once", "twice"} =>
        /\ ~normalized.threw
        /\ normalized.value.category # Str("")

\* C11 as claimed: every record normalizeResource returns, mapped or
\* accepted unchanged, has a zip field holding a string, which is five
\* digits or empty.
C11_ZipIsString ==
    (normPc \in {"once", "twice"} /\ ~normalized.threw) =>
        /\ "zip" \in DOMAIN normalized.value
        /\ normalized.value.zip.t = "string"
        /\ \/ normalized.value.zip.s = ""
           \/ Len(normalized.value.zip.s) = 5 /\ AllDigits(normalized.value.zip.s)

-----------------------------------------------------------------------------
(* backend/resourceService.js: sources and cache *)

\* resourceCache.ttl, in milliseconds
ttl == 3600000

\* The freshness test taking a snapshot of age ttl for fresh
cacheIsFreshAtTtl(cache, t) ==
    /\ Truthy(cache.data)
    /\ Truthy(cache.timestamp)
    /\ t - cache.timestamp.n <= ttl

\* The test of getAllResources' first lines: at time t the cache holds a
\* snapshot that is younger than ttl.
cacheIsFresh(cache, t) ==
    /\ Truthy(cache.data)
    /\ Truthy(cache.timestamp)
    /\ t - cache.timestamp.n < ttl

\* A refresh that clears nothing
notInvalidated(cache) == cache

\* resourceCache after refreshResources' first two lines
invalidated(cache) == [cache EXCEPT !.data = Null, !.timestamp = Null]

\* The update that writes the snapshot without its timestamp
cacheUpdateDataOnly(cache, ref, t) == [cache EXCEPT !.data = ref]

\* resourceCache after `resourceCache.data = resources;
\* resourceCache.timestamp = Date.now()`
cacheUpdate(cache, ref, t) == [cache EXCEPT !.data = ref, !.timestamp = Num(t)]

\* process.env.RESOURCE_DATA_SOURCE || 'json'
dataSourceOf(env) == Or(env, Str("json"))

\* The case the switch on dataSource.toLowerCase() takes
sourceCase(ds) ==
    LET lower == toLowerCase(ds.s)
    IN  IF lower \in {"api", "database"} THEN lower ELSE "json"

\* A load that never waits: the switch runs to its end at once
neverWaits(ds, url) == FALSE

\* case 'api' with a URL configured: getAllResources waits for fetchFromAPI
waitsForNetwork(ds, url) == sourceCase(ds) = "api" /\ Truthy(url)

\* A call that raised an Error that is no TypeError
ThrowError == [threw |-> TRUE, value |-> [t |-> "throw", error |-> "Error"]]

\* What the remote catalog answers: no usable answer (fetch rejects, the
\* status is not ok, or the body is not JSON), or the JSON value `data`.
NoAnswer == [t |-> "error"]

Answer(data) == [t |-> "json", data |-> data]

\* fetchFromAPI(apiUrl, apiKey) once the remote catalog has answered
fetchFromAPI(response) ==
    IF response.t = "error" THEN ThrowError
    ELSE IF response.data.t = "null" THEN Throw       \* data.resources of null
    ELSE
    LET data == response.data
        field(f) == Get(data.o, f)
        resources_ ==
            IF data.t = "array" THEN data
            ELSE IF Truthy(field("resources")) THEN field("resources")
            ELSE IF Truthy(field("data")) THEN field("data")
            ELSE IF Truthy(field("results")) THEN field("results")
            ELSE IF Truthy(field("organizations")) THEN field("organizations")
            ELSE Arr(<<>>)
    IN  IF resources_.t # "array" THEN Throw          \* resources.map is not a function
        ELSE IF \E i \in 1..Len(resources_.a) :
                    normalizeResource(resources_.a[i], 0).threw THEN Throw
        ELSE Return([i \in 1..Len(resources_.a) |->
                        normalizeResource(resources_.a[i], 0).value])

\* The switch of getAllResources where it does not wait for the network:
\* case 'api' without a URL raises, fetchFromDatabase returns no record,
\* case 'json' and the default read the static file.
loadNow(ds, file) ==
    CASE sourceCase(ds) = "api"      -> ThrowError
      [] sourceCase(ds) = "database" -> Return(<<>>)
      [] OTHER                       -> Return(loadFromJSON(file))

\* The fallback taken only on an error, not on an empty result
fallsBackOnErrorOnly(ds, primary) == ds # Str("json") /\ primary.threw

\* Whether getAllResources replaces the outcome `primary` of its switch by
\* the static file's catalog: the source is not named 'json' and the switch
\* raised (243-253) or gave no record (231-234).
fallsBack(ds, primary) ==
    ds # Str("json") /\ (primary.threw \/ Len(primary.value) = 0)

\* getAllResources raising every error of its switch again
afterLoadRaising(ds, primary, file) ==
    IF primary.threw THEN primary
    ELSE IF fallsBack(ds, primary) THEN Return(loadFromJSON(file)) ELSE primary

\* What getAllResources returns, `primary` being how the switch ended; with
\* the source named 'json' an error is raised again (255).
afterLoad(ds, primary, file) ==
    IF fallsBack(ds, primary) THEN Return(loadFromJSON(file)) ELSE primary

\* How the switch ended, in a word: it gave records, or it gave nothing
\* (it raised, or its result was empty)
outcomeOf(primary) ==
    IF primary.threw \/ Len(primary.value) = 0 THEN "nothing" ELSE "records"

\* The source the array getAllResources returns was read from
originOf(ds, primary) ==
    IF sourceCase(ds) = "api" /\ ~fallsBack(ds, primary) THEN "api" ELSE "json"

-----------------------------------------------------------------------------
(* backend/aiService.js *)

\* One step of a plan: the template it was written from, its place in the
\* plan, the values put into the template, and whether translateToSpanish
\* has rewritten it.
Step(template, i, values) ==
    [template |-> template, step |-> i, values |-> values, translated |-> FALSE]

\* The keys of generateMockActionPlan's `templates`
TemplateKeys == {"food", "housing", "mental_health", "legal", "jobs"}

\* The resource fields each template's first two steps interpolate (the
\* third interpolates none); "default" is the fallback of line 146.
TemplateFields ==
    [food          |-> << <<"phone", "hours">>, <<"name", "address">> >>,
     housing       |-> << <<"phone", "website">>, <<>> >>,
     mental_health |-> << <<"phone">>, <<>> >>,
     legal         |-> << <<"phone", "hours">>, <<>> >>,
     jobs          |-> << <<"name", "address", "phone">>, <<>> >>,
     default       |-> << <<"name", "phone", "hours">>, <<"website">> >>]

\* generateMockActionPlan(resource): templates[category], or the default
\* steps.  A category naming a member inherited from Object.prototype
\* selects that member, which is no array.
generateMockActionPlan(resource) ==
    LET category == Get(resource, "category")
        key == IF category.t = "string" /\ category.s \in TemplateKeys
                   THEN category.s ELSE "default"
        values(i) == IF i > 2 THEN <<>>
                     ELSE [j \in 1..Len(TemplateFields[key][i]) |->
                              Get(resource, TemplateFields[key][i][j])]
    IN  IF category.t = "string" /\ category.s \in InheritedKeys
            THEN [steps |-> Obj([inherited |-> category])]
        ELSE [steps |-> Arr([i \in 1..3 |-> Step(key, i, values(i))])]

\* translateToSpanish(plan): every step rewritten by the phrase table;
\* plan.steps.map raises if steps is no array.
translateToSpanish(plan) ==
    IF plan.steps.t # "array" THEN Throw
    ELSE Return([steps |-> Arr([i \in 1..Len(plan.steps.a) |->
                    [plan.steps.a[i] EXCEPT !.translated = TRUE]])])

\* What the external generator does for one resource: it fails (the
\* request is rejected, or the reply is not the JSON asked for), or it
\* writes steps of its own for that resource.
Failed == [t |-> "failed"]

Written(resource) ==
    [t |-> "written",
     plan |-> [steps |-> Arr([i \in 1..3 |-> Step("openai", i, <<Get(resource, "name")>>)])]]

\* generateActionPlan that lets the external generator's failure through
generateActionPlanUnguarded(resource, info, apiKey, ai) ==
    IF Truthy(apiKey) /\ ai.t = "written" THEN Return(ai.plan)
    ELSE IF Truthy(apiKey) THEN ThrowError
    ELSE Return(generateMockActionPlan(resource))

\* generateActionPlan(resource, userInfo), apiKey being OPENAI_API_KEY and
\* ai what the external generator does if it is asked
generateActionPlan(resource, info, apiKey, ai) ==
    LET preferredLanguage == Or(Get(info, "preferredLanguage"), Str("English"))
        plan == generateMockActionPlan(resource)
    IN  IF Truthy(apiKey) /\ ai.t = "written" THEN Return(ai.plan)
        ELSE IF preferredLanguage.t # "string" THEN Throw
        ELSE IF toLowerCase(preferredLanguage.s) = "spanish"
            THEN translateToSpanish(plan)
        ELSE Return(plan)

\* The plans attached from the last match to the first
attachActionPlansBackwards(matched, plans) ==
    [i \in 1..Len(matched) |->
        [f \in DOMAIN matched[Len(matched) + 1 - i] \cup {"actionPlan"} |->
            IF f = "actionPlan" THEN plans[i] ELSE matched[Len(matched) + 1 - i][f]]]

\* { ...resource, actionPlan } for every matched resource
attachActionPlans(matched, plans) ==
    [i \in 1..Len(matched) |->
        [f \in DOMAIN matched[i] \cup {"actionPlan"} |->
            IF f = "actionPlan" THEN plans[i] ELSE matched[i][f]]]

-----------------------------------------------------------------------------
(* The server (unnamed/part_002) with the cache, as a state machine *)

\* The requests the server handles besides its own start-up call
MaxRequests == 2

\* Date.now() when the server starts
StartTime == 1

\* How far one Tick moves the clock, in milliseconds, and how many Ticks
\* there are
TickMs == 1800000

MaxTicks == 2

\* Caller 0 is the call of initializeResources at start-up (part_002:33).
Callers == 0..MaxRequests

\* The values of RESOURCE_DATA_SOURCE and RESOURCE_API_URL tried: the source
\* unset, the documented ones, one in upper case and one that names no
\* source; the URL set or not where the source is the remote catalog
Configurations ==
    {<<ds, Undefined>> :
        ds \in {Undefined, Str("json"), Str("JSON"), Str("api"), Str("database"),
                Str("cloud")}}
    \cup {<<Str("api"), Str("https://catalog.example.org/resources")>>}

\* A record of resources.json with zip 94601
Local(id, name, more) == Resource(id, name, "food", Zip("94601") @@ more)

\* A static file with three food resources at the user's zip, one for
\* English speakers, one for Spanish speakers and one with no language
\* list, and one housing resource
SmallFile ==
    << Local(11, "Fir", Langs(<<"Spanish">>)),
       Local(12, "Cedar", Tags(<<"low_income">>)),
       Local(13, "Ash", Tags(<<>>) @@ Langs(<<"English">>)),
       SampleFile[10] >>

\* The static files tried
ServerFiles == {Missing, Malformed, Parsed(SmallFile)}

\* A record in the remote catalog's own field names
RemoteRecord ==
    [resource_id |-> Num(3), organization_name |-> Str("Org"),
     service_category |-> Str("Food Bank"), postal_code |-> Str("94601-1234")]

\* The answers of the remote catalog tried: none, an empty array, an array
\* of records, a documented wrapper, an unknown wrapper, a record
\* normalizeResource raises on, a wrapper holding no array, and null
ApiResponses ==
    {NoAnswer,
     Answer(Arr(<<>>)),
     Answer(Arr(<<RemoteRecord>>)),
     Answer(Obj([resources |-> Arr(<<RemoteRecord>>)])),
     Answer(Obj([items |-> Arr(<<RemoteRecord>>)])),
     Answer(Arr(<<[resource_id |-> Num(4), category |-> Num(5)]>>)),
     Answer(Obj([data |-> Str("none")])),
     Answer(Null)}

\* The request bodies of /match tried: two with zip and primaryNeed, one
\* without zip and one with an empty primaryNeed
Bodies ==
    LET rest == [incomeBracket |-> Str("low"), ageRange |-> Str("30-40"),
                 householdSize |-> Num(1)]
        zip == [zip |-> Str("94601")]
        need == [primaryNeed |-> Str("food")]
    IN  {zip @@ need @@ rest,
         zip @@ need @@ rest @@ [preferredLanguage |-> Str("Spanish")],
         need @@ rest,
         zip @@ [primaryNeed |-> Str("")] @@ rest}

\* !userInfo.zip: the validation without its second test
missingZip(info) == ~Truthy(Get(info, "zip"))

\* !userInfo.zip || !userInfo.primaryNeed
missingRequired(info) ==
    ~Truthy(Get(info, "zip")) \/ ~Truthy(Get(info, "primaryNeed"))

\* The outcomes of matchResources(rs, info): it raises, or it returns one
\* of the lists the calls of Math.random() allow
matchResources(rs, info) ==
    LET ps == prioritize(eligibleMatches(rs, info), info)
    IN  IF distanceThrows(ps, info) THEN {Throw}
        ELSE {Return(topMatches(sortMatches(ds))) : ds \in annotated(ps, info)}

\* res.status(code).json(body)
Response(code, body) == [statusCode |-> code, json |-> body]

NoResponse == [statusCode |-> 0]

\* A request that has not arrived
NewRequest ==
    [kind |-> "none",           \* "startup", "health", "refresh", "match"
     pc |-> "idle",             \* "call", "fetch", "return", "plans", "done"
     site |-> "none",           \* the function that calls getAllResources
     body |-> <<>>,             \* req.body
     calledAt |-> 0,            \* Date.now() at its latest getAllResources call
     heapAtCall |-> 0,          \* the number of arrays built before that call
     cacheAtCall |-> [data |-> Null, timestamp |-> Null],   \* the cache then
     cacheBefore |-> [data |-> Null, timestamp |-> Null],   \* before a refresh
     primary |-> "none",        \* how that call's load ended, "none" if none
     ret |-> Return(Null),      \* what that call returned
     matched |-> Return(<<>>),  \* what matchResources returned
     planCalls |-> <<>>,        \* the resources generateActionPlan was called on
     ai |-> <<>>,               \* what the external generator did for each
     response |-> NoResponse]

\* req with the fields `fields` of request r assigned
Set(r, fields) == [req EXCEPT ![r] = fields @@ req[r]]

\* The locals of a getAllResources call, gone once its caller has gone on
CallEnded ==
    [site |-> "none", calledAt |-> 0, heapAtCall |-> 0,
     cacheAtCall |-> NewRequest.cacheAtCall, cacheBefore |-> NewRequest.cacheBefore,
     primary |-> "none", ret |-> Return(Null)]

\* The server before line 33 of part_002 has run.  With the remote catalog
\* as the source the file is tried missing and well-formed (a malformed
\* one is read in the same way as a missing one) and without an
\* OPENAI_API_KEY; with every other source all files and both keys are
\* tried.
InitServer ==
    /\ \E c \in Configurations : dataSource = c[1] /\ apiUrl = c[2]
    /\ openaiApiKey \in {Undefined, Str("sk-key")}
    /\ staticFile \in ServerFiles
    /\ waitsForNetwork(dataSourceOf(dataSource), apiUrl) =>
           staticFile # Malformed /\ openaiApiKey = Undefined
    /\ resourceCache = [data |-> Null, timestamp |-> Null]
    /\ heap = << <<>> >>
    /\ loadedFrom = <<"literal">>
    /\ now = StartTime
    /\ serverResources = Ref(1)
    /\ resourcesInitialized = FALSE
    /\ running = {}
    /\ req = [r \in Callers |-> NewRequest]
    /\ MatchIdle
    /\ NormIdle

\* The start-up call of initializeResources (part_002:33)
Startup ==
    /\ running = {}
    /\ req[0].pc = "idle"
    /\ req' = Set(0, [kind |-> "startup", pc |-> "call", site |-> "initializeResources"])
    /\ running' = {0}
    /\ UNCHANGED <<envVars, resourceCache, heap, loadedFrom, now, serverResources,
                   resourcesInitialized>>
    /\ UNCHANGED <<matchVars, normVars>>

\* Request r reaches the server, which has started and is executing
\* nothing; the requests are numbered as they arrive
Arrives(r) ==
    /\ running = {}
    /\ r # 0
    /\ req[r].pc = "idle"
    /\ req[r - 1].pc # "idle"

\* GET /health up to its first getAllResources call: the one of
\* initializeResources if the catalog is not initialised, else the one of
\* getResourceCount
Health(r) ==
    /\ Arrives(r)
    /\ req' = Set(r, [kind |-> "health", pc |-> "call",
                      site |-> IF resourcesInitialized THEN "getResourceCount"
                               ELSE "initializeResources"])
    /\ running' = {r}
    /\ UNCHANGED <<envVars, resourceCache, heap, loadedFrom, now, serverResources,
                   resourcesInitialized>>
    /\ UNCHANGED <<matchVars, normVars>>

\* POST /refresh-resources up to refreshResources' getAllResources call:
\* the cache is cleared
Refresh(r) ==
    /\ Arrives(r)
    /\ resourceCache' = invalidated(resourceCache)
    /\ req' = Set(r, [kind |-> "refresh", pc |-> "call", site |-> "refreshResources",
                      cacheBefore |-> resourceCache])
    /\ running' = {r}
    /\ UNCHANGED <<envVars, heap, loadedFrom, now, serverResources, resourcesInitialized>>
    /\ UNCHANGED <<matchVars, normVars>>

\* POST /match up to its first getAllResources call, or to the response
\* that rejects a body lacking zip or primaryNeed
Match(r) ==
    /\ Arrives(r)
    /\ \E info \in Bodies :
          IF missingRequired(info)
          THEN /\ req' = Set(r, [kind |-> "match", body |-> info, pc |-> "done",
                       response |-> Response(400, [error |->
                           "Missing required fields: zip and primaryNeed are required"])])
               /\ running' = {}
          ELSE /\ req' = Set(r, [kind |-> "match", body |-> info, pc |-> "call",
                       site |-> IF ~resourcesInitialized
                                   \/ Len(heap[serverResources.ref]) = 0
                                THEN "initializeResources" ELSE "match"])
               /\ running' = {r}
    /\ UNCHANGED <<envVars, resourceCache, heap, loadedFrom, now, serverResources,
                   resourcesInitialized>>
    /\ UNCHANGED <<matchVars, normVars>>

\* A load that caches its array only if the primary source gave records
LoadedCachingRecordsOnly(r, seen, primary) ==
    LET ds == dataSourceOf(dataSource)
        out == afterLoad(ds, primary, staticFile)
        ref == Ref(Len(heap) + 1)
    IN  /\ heap' = Append(heap, out.value)
        /\ loadedFrom' = Append(loadedFrom, originOf(ds, primary))
        /\ resourceCache' = IF outcomeOf(primary) = "records"
                            THEN cacheUpdate(resourceCache, ref, now) ELSE resourceCache
        /\ req' = Set(r, seen @@ [pc |-> "return", primary |-> outcomeOf(primary),
                                  ret |-> Return(ref)])

\* getAllResources returns to request r after a load whose switch ended as
\* `primary`: the array is built, the cache updated; `seen` is what the
\* call saw when it began
Loaded(r, seen, primary) ==
    LET ds == dataSourceOf(dataSource)
        out == afterLoad(ds, primary, staticFile)
        ref == Ref(Len(heap) + 1)
    IN  IF out.threw
        THEN /\ req' = Set(r, seen @@ [pc |-> "return", primary |-> outcomeOf(primary),
                                       ret |-> out])
             /\ UNCHANGED <<resourceCache, heap, loadedFrom>>
        ELSE /\ heap' = Append(heap, out.value)
             /\ loadedFrom' = Append(loadedFrom, originOf(ds, primary))
             /\ resourceCache' = cacheUpdate(resourceCache, ref, now)
             /\ req' = Set(r, seen @@ [pc |-> "return", primary |-> outcomeOf(primary),
                                       ret |-> Return(ref)])

\* getAllResources() called by request r, up to its return or to the point
\* where it waits for the remote catalog
GetAllResources(r) ==
    /\ running = {r}
    /\ req[r].pc = "call"
    /\ LET seen == [calledAt |-> now, heapAtCall |-> Len(heap),
                    cacheAtCall |-> resourceCache]
           ds == dataSourceOf(dataSource)
       IN  IF cacheIsFresh(resourceCache, now)
           THEN /\ req' = Set(r, seen @@ [pc |-> "return", primary |-> "none",
                                          ret |-> Return(resourceCache.data)])
                /\ UNCHANGED <<resourceCache, heap, loadedFrom, running>>
           ELSE IF waitsForNetwork(ds, apiUrl)
           THEN /\ req' = Set(r, seen @@ [pc |-> "fetch"])
                /\ running' = {}
                /\ UNCHANGED <<resourceCache, heap, loadedFrom>>
           ELSE /\ Loaded(r, seen, loadNow(ds, staticFile))
                /\ UNCHANGED running
    /\ UNCHANGED <<envVars, now, serverResources, resourcesInitialized>>
    /\ UNCHANGED <<matchVars, normVars>>

\* The remote catalog answers request r's fetchFromAPI, and getAllResources
\* runs to its return
FetchCompletes(r) ==
    /\ running = {}
    /\ req[r].pc = "fetch"
    /\ \E response \in ApiResponses : Loaded(r, <<>>, fetchFromAPI(response))
    /\ running' = {r}
    /\ UNCHANGED <<envVars, now, serverResources, resourcesInitialized>>
    /\ UNCHANGED <<matchVars, normVars>>

\* getAllResources has returned to request r's caller `site`
Returned_(r, site) ==
    /\ running = {r}
    /\ req[r].pc = "return"
    /\ req[r].site = site

\* initializeResources after its await: the catalog is kept and marked
\* initialised, or the error is logged; then the handler goes on to its
\* own getAllResources call
InitializeResourcesReturns(r) ==
    /\ Returned_(r, "initializeResources")
    /\ IF req[r].ret.threw
       THEN UNCHANGED <<serverResources, resourcesInitialized>>
       ELSE /\ serverResources' = req[r].ret.value
            /\ resourcesInitialized' = TRUE
    /\ IF req[r].kind = "startup"
       THEN /\ req' = Set(r, [pc |-> "done"] @@ CallEnded)
            /\ running' = {}
       ELSE /\ req' = Set(r, [pc |-> "call",
                              site |-> IF req[r].kind = "health" THEN "getResourceCount"
                                       ELSE "match"] @@ CallEnded)
            /\ UNCHANGED running
    /\ UNCHANGED <<envVars, resourceCache, heap, loadedFrom, now>>
    /\ UNCHANGED <<matchVars, normVars>>

\* GET /health after getResourceCount: the response
HealthResponds(r) ==
    /\ Returned_(r, "getResourceCount")
    /\ req' = Set(r, [pc |-> "done", response |->
          IF req[r].ret.threw
          THEN Response(500, [status |-> "error", error |-> req[r].ret.value.error])
          ELSE Response(200,
                  [status |-> "ok",
                   resourcesCount |-> Len(heap[req[r].ret.value.ref]),
                   dataSource |-> dataSourceOf(dataSource).s,
                   cacheAge |-> IF Len(heap[serverResources.ref]) > 0
                                THEN "active" ELSE "none"])] @@ CallEnded)
    /\ running' = {}
    /\ UNCHANGED <<envVars, resourceCache, heap, loadedFrom, now, serverResources,
                   resourcesInitialized>>
    /\ UNCHANGED <<matchVars, normVars>>

\* POST /refresh-resources after refreshResources: the catalog is kept and
\* its size reported
RefreshResponds(r) ==
    /\ Returned_(r, "refreshResources")
    /\ IF req[r].ret.threw
       THEN /\ req' = Set(r, [pc |-> "done", response |->
                   Response(500, [status |-> "error", error |-> req[r].ret.value.error])]
                   @@ CallEnded)
            /\ UNCHANGED <<serverResources, resourcesInitialized>>
       ELSE /\ serverResources' = req[r].ret.value
            /\ resourcesInitialized' = TRUE
            /\ req' = Set(r, [pc |-> "done", response |->
                   Response(200, [status |-> "success",
                                  resourcesCount |-> Len(heap[req[r].ret.value.ref]),
                                  message |-> "Resources refreshed successfully"])]
                   @@ CallEnded)
    /\ running' = {}
    /\ UNCHANGED <<envVars, resourceCache, heap, loadedFrom, now>>
    /\ UNCHANGED <<matchVars, normVars>>

\* The response of /match once every generateActionPlan call has settled,
\* ai[i] being what the external generator did for matched[i]
matchResponse(matched, info, apiKey, ai) ==
    LET plans == [i \in 1..Len(matched) |->
                     generateActionPlan(matched[i], info, apiKey, ai[i])]
    IN  IF \E i \in 1..Len(matched) : plans[i].threw
            THEN Response(500, [error |-> "Internal server error"])
        ELSE LET resourcesWithPlans ==
                     attachActionPlans(matched, [i \in 1..Len(matched) |-> plans[i].value])
             IN  Response(200, [matches |-> resourcesWithPlans,
                                count |-> Len(resourcesWithPlans)])

\* POST /match after its own getAllResources call: matchResources, then a
\* generateActionPlan call for each match.  Without an API key, or with no
\* match, nothing waits for the network and the response follows.
MatchRuns(r) ==
    /\ Returned_(r, "match")
    /\ IF req[r].ret.threw
       THEN /\ req' = Set(r, [pc |-> "done", response |->
                   Response(500, [error |-> "Internal server error"])] @@ CallEnded)
            /\ running' = {}
       ELSE \E matchedResources \in matchResources(heap[req[r].ret.value.ref], req[r].body) :
              IF matchedResources.threw
              THEN /\ req' = Set(r, [pc |-> "done", matched |-> matchedResources,
                          response |-> Response(500, [error |-> "Internal server error"])]
                          @@ CallEnded)
                   /\ running' = {}
              ELSE IF Truthy(openaiApiKey) /\ Len(matchedResources.value) > 0
              THEN /\ req' = Set(r, [pc |-> "plans", matched |-> matchedResources,
                                     planCalls |-> matchedResources.value] @@ CallEnded)
                   /\ running' = {}
              ELSE LET unasked == [i \in 1..Len(matchedResources.value) |-> Failed]
                   IN  /\ req' = Set(r, [pc |-> "done", matched |-> matchedResources,
                              planCalls |-> matchedResources.value,
                              ai |-> unasked,
                              response |-> matchResponse(matchedResources.value,
                                              req[r].body, openaiApiKey, unasked)]
                              @@ CallEnded)
                       /\ running' = {}
    /\ heap' = IF req[r].ret.threw THEN heap
               ELSE [heap EXCEPT ![req[r].ret.value.ref] =
                        resourcesAfterMatch(@, req[r].body)]
    /\ UNCHANGED <<envVars, resourceCache, loadedFrom, now, serverResources,
                   resourcesInitialized>>
    /\ UNCHANGED <<matchVars, normVars>>

\* The external generator has dealt with every plan of request r, failing
\* for any of them: Promise.all settles and /match responds
PlansSettle(r) ==
    /\ running = {}
    /\ req[r].pc = "plans"
    /\ LET matched == req[r].matched.value
       IN  \E failed \in SUBSET (1..Len(matched)) :
              LET ai == [i \in 1..Len(matched) |->
                            IF i \in failed THEN Failed ELSE Written(matched[i])]
              IN  req' = Set(r, [pc |-> "done", ai |-> ai,
                        response |-> matchResponse(matched, req[r].body, openaiApiKey, ai)])
    /\ UNCHANGED <<envVars, resourceCache, heap, loadedFrom, now, serverResources,
                   resourcesInitialized, running>>
    /\ UNCHANGED <<matchVars, normVars>>

\* Time passes while the server waits
Tick ==
    /\ running = {}
    /\ now + TickMs <= StartTime + (MaxTicks * TickMs)
    /\ now' = now + TickMs
    /\ UNCHANGED <<envVars, resourceCache, heap, loadedFrom, serverResources,
                   resourcesInitialized, running, req>>
    /\ UNCHANGED <<matchVars, normVars>>

NextServer ==
    \/ Startup
    \/ Tick
    \/ \E r \in Callers :
          \/ Health(r)
          \/ Refresh(r)
          \/ Match(r)
          \/ GetAllResources(r)
          \/ FetchCompletes(r)
          \/ InitializeResourcesReturns(r)
          \/ HealthResponds(r)
          \/ RefreshResponds(r)
          \/ MatchRuns(r)
          \/ PlansSettle(r)

SpecServer == InitServer /\ [][NextServer]_vars

-----------------------------------------------------------------------------
(* C12..C14: the sources of the catalog *)

\* The source the configuration names: "api", "database" or "json"
ConfiguredSource == sourceCase(dataSourceOf(dataSource))

\* getAllResources has just returned to request r, or raised
JustReturned(r) == req[r].pc = "return"

\* The array request r's call returned
ReturnedList(r) == heap[req[r].ret.value.ref]

FileUnreadable == staticFile.t # "parsed"

\* C12: when the source is api or database and the primary load raised or
\* gave no record, getAllResources raises nothing, returns the catalog of
\* the static file, and the cache holds what it returned, stamped with the
\* time of the return.
C12_FallsBackToStaticFile ==
    \A r \in Callers :
        (/\ JustReturned(r)
         /\ ConfiguredSource \in {"api", "database"}
         /\ req[r].primary = "nothing")
        => /\ ~req[r].ret.threw
           /\ ReturnedList(r) = loadFromJSON(staticFile)
           /\ loadedFrom[req[r].ret.value.ref] = "json"
           /\ resourceCache = [data |-> req[r].ret.value, timestamp |-> Num(now)]

\* The remote catalog failed or was empty, the URL being configured, and
\* the call returned the static file's resources.
C12_Witness ==
    \E r \in Callers :
        /\ JustReturned(r)
        /\ ConfiguredSource = "api"
        /\ Truthy(apiUrl)
        /\ req[r].primary = "nothing"
        /\ ~req[r].ret.threw
        /\ Len(ReturnedList(r)) > 0

\* C13 as claimed: with the static file missing or malformed,
\* getAllResources raises nothing and returns the empty list, whatever the
\* source.
C13_EmptyWhenFileUnreadable ==
    \A r \in Callers :
        (JustReturned(r) /\ FileUnreadable)
        => /\ ~req[r].ret.threw
           /\ ReturnedList(r) = <<>>

\* C13 amended: with the static file missing or malformed, getAllResources
\* raises nothing; it returns the empty list unless the source is the
\* remote catalog with its URL configured and what it returns was read from
\* that catalog.
C13_EmptyUnlessRemoteRecords ==
    \A r \in Callers :
        (JustReturned(r) /\ FileUnreadable)
        => /\ ~req[r].ret.threw
           /\ \/ ReturnedList(r) = <<>>
              \/ /\ ConfiguredSource = "api"
                 /\ Truthy(apiUrl)
                 /\ loadedFrom[req[r].ret.value.ref] = "api"

\* The static file is malformed, the source is not the remote catalog, and
\* a load has returned the empty list.
C13_Witness ==
    \E r \in Callers :
        /\ JustReturned(r)
        /\ staticFile = Malformed
        /\ dataSource = Str("cloud")
        /\ req[r].primary # "none"
        /\ ~req[r].ret.threw
        /\ ReturnedList(r) = <<>>

\* A request body that has zip and primaryNeed, neither empty
ValidBody(info) ==
    /\ {"zip", "primaryNeed"} \subseteq DOMAIN info
    /\ info.zip # Str("")
    /\ info.primaryNeed # Str("")

\* C14 as claimed: with the static file unreadable, /health answers with an
\* error status, and /match with a valid body answers 200 with no match
\* and count 0.
C14_HealthFailsMatchSucceeds ==
    \A r \in Callers :
        (req[r].pc = "done" /\ FileUnreadable)
        => /\ req[r].kind = "health" =>
                  /\ req[r].response.statusCode = 500
                  /\ req[r].response.json.status = "error"
           /\ (req[r].kind = "match" /\ ValidBody(req[r].body)) =>
                  /\ req[r].response.statusCode = 200
                  /\ req[r].response.json.matches = <<>>
                  /\ req[r].response.json.count = 0

-----------------------------------------------------------------------------
(* C15..C17: the cache *)

EmptyCache == [data |-> Null, timestamp |-> Null]

\* The age, when request r called getAllResources, of the snapshot the
\* cache then held
AgeAtCall(r) == req[r].calledAt - req[r].cacheAtCall.timestamp.n

\* The arrays a complete load can build: the static file's catalog, or the
\* records of one answer of the remote catalog
CompleteCatalogs ==
    {loadFromJSON(staticFile)}
    \cup {fetchFromAPI(a).value : a \in {b \in ApiResponses : ~fetchFromAPI(b).threw}}

\* Request r's call built a new array from a source, the cache holds it,
\* stamped with the time of the return, and r got it
FreshLoad(r) ==
    /\ ~req[r].ret.threw
    /\ req[r].primary # "none"
    /\ req[r].ret.value.ref > req[r].heapAtCall
    /\ ReturnedList(r) \in CompleteCatalogs
    /\ ConfiguredSource # "api" => ReturnedList(r) = loadFromJSON(staticFile)
    /\ resourceCache = [data |-> req[r].ret.value, timestamp |-> Num(now)]

\* C15: a call that finds a snapshot younger than ttl returns that very
\* array, builds none and leaves the cache as it is; a call that finds a
\* snapshot of age ttl or more loads from the source and replaces snapshot
\* and timestamp.
C15_CacheWithinTtl ==
    \A r \in Callers :
        (JustReturned(r) /\ req[r].cacheAtCall # EmptyCache)
        => IF AgeAtCall(r) < ttl
           THEN /\ req[r].ret = Return(req[r].cacheAtCall.data)
                /\ req[r].primary = "none"
                /\ Len(heap) = req[r].heapAtCall
                /\ resourceCache = req[r].cacheAtCall
           ELSE /\ FreshLoad(r)
                /\ req[r].ret.value # req[r].cacheAtCall.data
                /\ resourceCache.timestamp.n > req[r].cacheAtCall.timestamp.n

\* A call found a snapshot exactly ttl old, loaded, and got a new array.
C15_Witness ==
    \E r \in Callers :
        /\ JustReturned(r)
        /\ req[r].cacheAtCall # EmptyCache
        /\ AgeAtCall(r) = ttl
        /\ req[r].ret.value.ref > req[r].heapAtCall

\* A call found a snapshot half the ttl old and returned it.
C15_WitnessHit ==
    \E r \in Callers :
        /\ JustReturned(r)
        /\ req[r].cacheAtCall # EmptyCache
        /\ AgeAtCall(r) > 0
        /\ AgeAtCall(r) < ttl
        /\ req[r].ret = Return(req[r].cacheAtCall.data)

\* C16: refreshResources empties the cache before it reads, whatever the
\* cache held; its read loads from the source and returns a new array,
\* which the cache then holds; /refresh-resources keeps that array and
\* reports its length.
C16_RefreshReloads ==
    /\ [](\A r \in Callers :
            req[r].kind = "refresh" =>
                /\ req[r].pc = "call" => resourceCache = EmptyCache
                /\ req[r].pc = "fetch" => req[r].cacheAtCall = EmptyCache
                /\ req[r].pc = "return" =>
                       /\ FreshLoad(r)
                       /\ req[r].ret.value # req[r].cacheBefore.data)
    /\ [][\A r \in Callers :
            (req[r].kind = "refresh" /\ req[r].pc = "return" /\ req'[r].pc = "done")
            => /\ req'[r].response =
                      Response(200, [status |-> "success",
                                     resourcesCount |-> Len(ReturnedList(r)),
                                     message |-> "Resources refreshed successfully"])
               /\ serverResources' = req[r].ret.value
               /\ resourceCache' = [data |-> req[r].ret.value, timestamp |-> Num(now)]]_vars

\* A refresh found a snapshot younger than ttl and its read returned a new
\* array with resources in it.
C16_Witness ==
    \E r \in Callers :
        /\ req[r].kind = "refresh"
        /\ JustReturned(r)
        /\ req[r].cacheBefore # EmptyCache
        /\ req[r].calledAt - req[r].cacheBefore.timestamp.n < ttl
        /\ ~req[r].ret.threw
        /\ Len(ReturnedList(r)) > 0

\* No handler is executing: whichever request is waiting or arriving runs
\* next and sees the cache as it is
Observable == running = {}

\* Snapshot and timestamp are both absent, or both present with the
\* snapshot one of the arrays built
CacheWhole ==
    \/ resourceCache = EmptyCache
    \/ /\ resourceCache.data.t = "array"
       /\ resourceCache.data.ref \in 2..Len(heap)
       /\ resourceCache.timestamp.t = "number"

\* Every array getAllResources has built is a complete catalog
HeapComplete == \A i \in 2..Len(heap) : heap[i] \in CompleteCatalogs

\* No array already built changes
NoMutationInPlace ==
    /\ Len(heap') >= Len(heap)
    /\ \A i \in 1..Len(heap) : heap'[i] = heap[i]

\* This step writes a newly built complete array and the present time to
\* the cache, both at once
ReplacedWhole ==
    /\ Len(heap') = Len(heap) + 1
    /\ heap'[Len(heap')] \in CompleteCatalogs
    /\ resourceCache' = [data |-> Ref(Len(heap')), timestamp |-> Num(now)]

\* This step is the start of a refresh, which empties the cache
ClearedByRefresh ==
    /\ resourceCache' = EmptyCache
    /\ \E r \in Callers :
          req[r].pc = "idle" /\ req'[r].kind = "refresh" /\ req'[r].pc = "call"

\* Every call that returns in this step without building an array returns
\* the snapshot the cache holds, and leaves the cache alone
HitsReturnTheSnapshot ==
    \A r \in Callers :
        (req[r].pc = "call" /\ req'[r].pc = "return" /\ Len(heap') = Len(heap))
        => /\ resourceCache # EmptyCache
           /\ req'[r].ret = Return(resourceCache.data)
           /\ resourceCache' = resourceCache

\* Whatever a call returns is one of the complete arrays
ReturnsComplete ==
    \A r \in Callers :
        (JustReturned(r) /\ ~req[r].ret.threw)
        => req[r].ret.value.ref \in 2..Len(heap)

-----------------------------------------------------------------------------
(* C18..C20: the /match pipeline *)

\* What /match answers to a body without zip or primaryNeed
Rejection ==
    Response(400, [error |-> "Missing required fields: zip and primaryNeed are required"])

\* C18: a /match request whose body lacks zip or primaryNeed, or has one of
\* them empty, is answered 400 in the step it arrives in: it makes no
\* getAllResources call, no matchResources call and no generateActionPlan
\* call, and the step leaves the cache, the arrays and the server's catalog
\* as they were.
C18_RejectedBeforePipeline ==
    /\ [](\A r \in Callers :
            (req[r].kind = "match" /\ ~ValidBody(req[r].body))
            => req[r] = [NewRequest EXCEPT !.kind = "match", !.body = req[r].body,
                                           !.pc = "done", !.response = Rejection])
    /\ [][\A r \in Callers :
            (req[r].pc = "idle" /\ req'[r].kind = "match" /\ ~ValidBody(req'[r].body))
            => /\ req'[r].pc = "done"
               /\ running' = {}
               /\ UNCHANGED <<resourceCache, heap, loadedFrom, serverResources,
                              resourcesInitialized>>]_vars

\* A request with an empty primaryNeed has been rejected while the cache
\* held a snapshot.
C18_Witness ==
    \E r \in Callers :
        /\ req[r].kind = "match"
        /\ req[r].pc = "done"
        /\ "zip" \in DOMAIN req[r].body
        /\ req[r].body.primaryNeed = Str("")
        /\ req[r].response.statusCode = 400
        /\ resourceCache # EmptyCache

\* The fields of a match other than its plan
WithoutPlan(m) == [f \in DOMAIN m \ {"actionPlan"} |-> m[f]]

\* C19: generateActionPlan is called on the list matchResources returned,
\* element by element, and on nothing if matchResources raised; the
\* response's matches are that list in its order, each element with an
\* actionPlan and otherwise as it was, and count is its length; the list is
\* what matchResources gives for one of the loaded catalogs, at most TopN
\* long.
C19_PlansAfterRanking ==
    \A r \in Callers :
        req[r].kind = "match" =>
            /\ req[r].matched.threw => req[r].planCalls = <<>>
            /\ (req[r].pc \in {"plans", "done"} /\ ~req[r].matched.threw)
               => /\ req[r].planCalls = req[r].matched.value
                  /\ Len(req[r].matched.value) <= TopN
            /\ (req[r].pc = "done" /\ req[r].response.statusCode = 200)
               => LET withPlans == req[r].response.json.matches
                      found == req[r].matched.value
                  IN  /\ Len(withPlans) = Len(found)
                      /\ req[r].response.json.count = Len(found)
                      /\ \A i \in 1..Len(found) :
                            /\ "actionPlan" \in DOMAIN withPlans[i]
                            /\ "actionPlan" \notin DOMAIN found[i]
                            /\ WithoutPlan(withPlans[i]) = found[i]
                      /\ \E i \in 1..Len(heap) :
                            req[r].matched \in matchResources(heap[i], req[r].body)

\* A response with two different matches.
C19_Witness ==
    \E r \in Callers :
        /\ req[r].kind = "match"
        /\ req[r].pc = "done"
        /\ req[r].response.statusCode = 200
        /\ req[r].response.json.count = 2
        /\ req[r].matched.value[1] # req[r].matched.value[2]

\* The plan written from the local templates for a resource, in the
\* language the body asks for
LocalPlan(resource, info) ==
    LET language == IF "preferredLanguage" \in DOMAIN info
                    THEN info.preferredLanguage.s ELSE "English"
    IN  IF toLowerCase(language) = "spanish"
        THEN translateToSpanish(generateMockActionPlan(resource)).value
        ELSE generateMockActionPlan(resource)

\* C20: a /match request with zip and primaryNeed, and with a preferred
\* language that is absent or a string, is answered 200 whatever the
\* external generator does; each match for which there is no API key or
\* the generator failed carries the local template plan, and each other
\* match the plan the generator wrote for it.
C20_LocalPlanOnFailure ==
    \A r \in Callers :
        (/\ req[r].kind = "match"
         /\ req[r].pc = "done"
         /\ ValidBody(req[r].body)
         /\ ~req[r].matched.threw)
        => /\ req[r].response.statusCode = 200
           /\ Len(req[r].ai) = Len(req[r].matched.value)
           /\ \A i \in 1..Len(req[r].matched.value) :
                 req[r].response.json.matches[i].actionPlan =
                     IF openaiApiKey # Undefined /\ req[r].ai[i] # Failed
                     THEN Written(req[r].matched.value[i]).plan
                     ELSE LocalPlan(req[r].matched.value[i], req[r].body)

\* With an API key, the generator failed for the first of two matches and
\* wrote a plan for the second, and the request was answered 200.
C20_Witness ==
    \E r \in Callers :
        /\ req[r].kind = "match"
        /\ req[r].pc = "done"
        /\ openaiApiKey # Undefined
        /\ Len(req[r].ai) = 2
        /\ req[r].ai[1] = Failed
        /\ req[r].ai[2] # Failed
        /\ req[r].response.statusCode = 200

\* Without an API key a request asking for Spanish was answered with
\* translated template plans.
C20_WitnessSpanish ==
    \E r \in Callers :
        /\ req[r].kind = "match"
        /\ req[r].pc = "done"
        /\ openaiApiKey = Undefined
        /\ "preferredLanguage" \in DOMAIN req[r].body
        /\ req[r].response.statusCode = 200
        /\ req[r].response.json.count > 0

-----------------------------------------------------------------------------
(* C21: the default of preferredLanguage *)

\* The criteria `info` with preferredLanguage set to "English"
AskingEnglish(info) ==
    [f \in DOMAIN info \cup {"preferredLanguage"} |->
        IF f = "preferredLanguage" THEN Str("English") ELSE info[f]]

LanguageAbsent == "preferredLanguage" \notin DOMAIN userInfo

\* The call on criteria without preferredLanguage ended as the call on the
\* same criteria asking for English can end: the same resources kept after
\* step 3 and, the distances coming out the same, the same list returned;
\* or both raise
SameAsForEnglish ==
    /\ prioritizedMatches =
           prioritize(eligibleMatches(resources, AskingEnglish(userInfo)),
                      AskingEnglish(userInfo))
    /\ result \in matchResources(resources, AskingEnglish(userInfo))

\* C21: a matchResources call on criteria without preferredLanguage ends as
\* the call on the same criteria with preferredLanguage "English" can end
\* (the same resources in the same order, the distances being the same),
\* and it returns a list: it does not raise.
C21_AbsentLanguageIsEnglish ==
    (Done /\ LanguageAbsent) => (SameAsForEnglish /\ ~result.threw)

\* The first half of C21 alone: the outcome, a list or an error, is the one
\* of the call asking for English.
C21_SameOutcomeAsEnglish ==
    (Done /\ LanguageAbsent) => SameAsForEnglish

\* Without preferredLanguage the language filter dropped a resource that
\* supports Spanish only, and a list was returned.
C21_Witness ==
    /\ Returned
    /\ LanguageAbsent
    /\ Len(prioritizedMatches) > 0
    /\ Len(prioritizedMatches) < Len(matches)

-----------------------------------------------------------------------------
(* C22: the catalog is only read *)

\* Request r's handler is at matchResources or at its generateActionPlan
\* calls, and this step is its
MatchingStep(r) ==
    /\ req[r].kind = "match"
    /\ \/ req[r].pc = "return" /\ req[r].site = "match"
       \/ req[r].pc = "plans"
    /\ req'[r] # req[r]

\* No resource of array a has a distance or an actionPlan
NothingAttached(a) ==
    \A i \in 1..Len(a) : {"distance", "actionPlan"} \cap DOMAIN a[i] = {}

\* C22: the steps of /match that run matchResources and attach the action
\* plans leave every array built, the cached snapshot, its timestamp and
\* the server's catalog as they are; no array ever changes once it is
\* built, so the cached list keeps its elements, their order and their
\* fields over any sequence of requests, and no resource in it has a
\* distance or an actionPlan.
C22_CatalogOnlyRead ==
    /\ [](\A i \in 1..Len(heap) : NothingAttached(heap[i]))
    /\ [][/\ \A i \in 1..Len(heap) : Len(heap') >= i /\ heap'[i] = heap[i]
          /\ \A r \in Callers :
                MatchingStep(r) => UNCHANGED <<heap, resourceCache, serverResources>>]_vars

\* Two /match requests have been answered with matches carrying distance
\* and actionPlan, and the cached list is the static file's catalog.
C22_Witness ==
    /\ \A r \in {1, 2} :
          /\ req[r].kind = "match"
          /\ req[r].pc = "done"
          /\ req[r].response.statusCode = 200
          /\ req[r].response.json.count > 0
          /\ {"distance", "actionPlan"} \subseteq DOMAIN req[r].response.json.matches[1]
    /\ resourceCache # EmptyCache
    /\ Len(heap[resourceCache.data.ref]) > 1
    /\ heap[resourceCache.data.ref] = loadFromJSON(staticFile)

-----------------------------------------------------------------------------
(* C23, C24: overlapping loads, and what is cached *)

\* The remote catalog is the source and its URL is configured
Remote == ConfiguredSource = "api" /\ Truthy(apiUrl)

\* The cache holds nothing, or a snapshot of age ttl or more
Stale ==
    \/ resourceCache = EmptyCache
    \/ now - resourceCache.timestamp.n >= ttl

\* C23: a getAllResources call that finds the cache empty or expired, the
\* source being the remote catalog, starts a load of its own whatever other
\* loads are under way; every load that completes builds its own array and
\* writes it to the cache with the time of its completion, whatever the
\* cache holds by then; so the cache, unless a refresh has emptied it,
\* holds the array of the load that completed last.
C23_EveryCallLoads ==
    /\ [](resourceCache # EmptyCache => resourceCache.data = Ref(Len(heap)))
    /\ [][\A r \in Callers :
            /\ (req[r].pc = "call" /\ req'[r].pc # "call" /\ Remote /\ Stale)
               => /\ req'[r].pc = "fetch"
                  /\ UNCHANGED <<resourceCache, heap>>
            /\ (req[r].pc = "fetch" /\ req'[r].pc # "fetch")
               => /\ req'[r].pc = "return"
                  /\ Len(heap') = Len(heap) + 1
                  /\ req'[r].ret = Return(Ref(Len(heap')))
                  /\ resourceCache' = [data |-> Ref(Len(heap')), timestamp |-> Num(now)]]_vars

\* The start-up load, the first to start, completed after a later one that
\* had cached the remote catalog's records, and replaced them in the cache
\* by the static file's, while a third load is still under way.
C23_Witness ==
    /\ JustReturned(0)
    /\ req[0].ret.value.ref > 2
    /\ resourceCache.data = req[0].ret.value
    /\ loadedFrom[req[0].ret.value.ref - 1] = "api"
    /\ loadedFrom[req[0].ret.value.ref] = "json"
    /\ \E r \in Callers : req[r].pc = "fetch"

\* Array i was read from the static file because the primary source gave
\* nothing, or is empty
FallbackOrEmpty(i) ==
    \/ heap[i] = <<>>
    \/ ConfiguredSource \in {"api", "database"} /\ loadedFrom[i] = "json"

\* The cache holds such an array, younger than ttl
FallbackCached ==
    /\ resourceCache # EmptyCache
    /\ FallbackOrEmpty(resourceCache.data.ref)
    /\ now - resourceCache.timestamp.n < ttl

\* A load that ends with such an array leaves it in the cache, stamped
\* with the time
FallbackIsCached ==
    \A r \in Callers :
        (/\ JustReturned(r)
         /\ req[r].primary # "none"
         /\ ~req[r].ret.threw
         /\ FallbackOrEmpty(req[r].ret.value.ref))
        => resourceCache = [data |-> req[r].ret.value, timestamp |-> Num(now)]

\* Every call made while such an array is cached returns it and loads
\* nothing
FallbackIsServed ==
    \A r \in Callers :
        (FallbackCached /\ req[r].pc = "call" /\ req'[r].pc # "call")
        => /\ req'[r].pc = "return"
           /\ req'[r].primary = "none"
           /\ req'[r].ret = Return(resourceCache.data)
           /\ UNCHANGED <<resourceCache, heap>>

\* This step completes a load that began before the cached array was built
EarlierLoadCompletes ==
    \E r \in Callers :
        /\ req[r].pc = "fetch"
        /\ req'[r].pc = "return"
        /\ req[r].heapAtCall < resourceCache.data.ref

\* C24 as claimed: a fallback or empty result is cached; while it is
\* younger than ttl every call returns it without loading; and nothing
\* but a refresh takes it out of the cache before it reaches that age.
C24_OnlyExpiryOrRefresh ==
    /\ []FallbackIsCached
    /\ [][/\ FallbackIsServed
          /\ (FallbackCached /\ (resourceCache' # resourceCache \/ heap' # heap))
             => ClearedByRefresh]_vars

\* C24 amended: a fallback or empty result is cached; while it is cached
\* and younger than ttl every call returns it without loading; before it
\* reaches that age it leaves the cache only by a refresh or by the
\* completion of a load that began before it was built.
C24_ExpiryRefreshOrEarlierLoad ==
    /\ []FallbackIsCached
    /\ [][/\ FallbackIsServed
          /\ (FallbackCached /\ (resourceCache' # resourceCache \/ heap' # heap))
             => (ClearedByRefresh \/ EarlierLoadCompletes)]_vars

\* The catalog is empty and cached; some time later, within the ttl, a
\* /match request tried to initialise the catalog again and was given the
\* cached empty list.
C24_Witness ==
    \E r \in Callers :
        /\ req[r].kind = "match"
        /\ req[r].site = "initializeResources"
        /\ JustReturned(r)
        /\ resourcesInitialized
        /\ req[r].primary = "none"
        /\ ReturnedList(r) = <<>>
        /\ req[r].calledAt > req[r].cacheAtCall.timestamp.n
        /\ FallbackCached

\* With the database as the source, a health check was served the cached
\* fallback catalog of the static file.
C24_WitnessFallback ==
    \E r \in Callers :
        /\ req[r].kind = "health"
        /\ JustReturned(r)
        /\ ConfiguredSource = "database"
        /\ req[r].primary = "none"
        /\ Len(ReturnedList(r)) > 0
        /\ FallbackCached

====
